---- MODULE Spec2Model ----
(***************************************************************************)
(* Model of the two crawlers of the repository:                            *)
(*   src/telegram/program.py            TelegramOnionExtractor             *)
(*   src/pastebinkeywordcrawler/pastein.py   PastebinCrawler               *)
(* The two scripts are separate programs with separate files; a behaviour  *)
(* of the model is a sequence of runs of one of them (variable crawler).    *)
(***************************************************************************)
EXTENDS Integers, Sequences, FiniteSets, TLC

\* ------------------------------------------------------------------ bounds
\* Message ids of the channel are 1..MaxMsgId.
MaxMsgId == 3
\* Number of runs of a script in one behaviour.
MaxRuns == 3
\* Number of disturbances in one behaviour: exceptions raised by the network
\* or the file system, and messages deleted from the channel.
MaxFaults == 1
\* Number of pastes the archive page lists.
MaxPastes == 3
\* The max_workers argument of PastebinCrawler.run (5 by default), scaled down.
max_workers == 2
\* The limit argument of process_messages (100 by default), scaled down.
limit == 2

\* Length of the checkpoint files given to get_last_message_id by itself.
MaxCkptLen == 3
\* Message ids given to save_last_message_id by itself are 1..MaxCkptId.
MaxCkptId == 12
\* Length of the contents given to check_keywords by itself.
MaxBodyLen == 4

\* ------------------------------------------------------------- text values
\* A message text is the sequence of its tokens; a token is a plain word or a
\* match of onion_pattern with its three capture groups.  The empty sequence
\* is a message without text (None or '').
Word == [kind |-> "word", protocol |-> "", domain |-> "", path |-> ""]
Onion(p, d, q) == [kind |-> "onion", protocol |-> p, domain |-> d, path |-> q]

Texts ==
    { << Word >>,
      << Onion("https://", "b", "/p"), Word, Onion("", "c", "") >> }

Range(s) == {s[i] : i \in 1..Len(s)}

\* ------------------------------------------------ checkpoint file contents
\* A string is the sequence of its characters; the characters are those of
\* Latin-1 (U+0000 to U+00FF), to which the tables below are complete.
Digits == << "0", "1", "2", "3", "4", "5", "6", "7", "8", "9" >>

RECURSIVE str(_)
\* Python str(n) for n >= 0: the decimal digits of n.
str(n) == IF n < 10 THEN << Digits[n + 1] >>
          ELSE str(n \div 10) \o << Digits[(n % 10) + 1] >>

DigitValue(c) == CHOOSE d \in 0..9 : Digits[d + 1] = c
IsDigit(c) == \E d \in 0..9 : Digits[d + 1] = c

\* The characters int() skips around a numeral: space, \t, \n, \r, \f, the
\* vertical tab \x0b, and the whitespace outside ASCII (in Latin-1: the next
\* line character U+0085 and the no-break space U+00A0).
IntWhitespace == {" ", "\t", "\n", "\r", "\f", "", "", " "}

\* The characters str.strip() removes: those, and the separators \x1c, \x1d,
\* \x1e, \x1f.
Whitespace == IntWhitespace \cup {"", "", "", ""}

RECURSIVE StripSet(_, _)
\* The characters of W removed from both ends of s.
StripSet(s, W) ==
    IF s = << >> THEN s
    ELSE IF Head(s) \in W THEN StripSet(Tail(s), W)
    ELSE IF s[Len(s)] \in W THEN StripSet(SubSeq(s, 1, Len(s) - 1), W)
    ELSE s

\* Python s.strip(): leading and trailing whitespace removed.
strip(s) == StripSet(s, Whitespace)

RECURSIVE DigitsToInt(_)
DigitsToInt(s) == IF s = << >> THEN 0
                  ELSE 10 * DigitsToInt(SubSeq(s, 1, Len(s) - 1)) + DigitValue(s[Len(s)])

\* Python int(s): surrounding whitespace, then an optional sign, then decimal
\* digits, where single underscores may stand between digits.  IntRaises
\* where int() raises ValueError.
Signs == {"+", "-"}
Unsigned(s) == IF s # << >> /\ Head(s) \in Signs THEN Tail(s) ELSE s

\* The most digits int() converts (sys.int_max_str_digits, as the interpreter
\* starts); a longer numeral raises ValueError.
int_max_str_digits == 4300

IntRaises(s) ==
    LET u == Unsigned(StripSet(s, IntWhitespace)) IN
      \/ u = << >>
      \/ Len(SelectSeq(u, IsDigit)) > int_max_str_digits
      \/ \E i \in 1..Len(u) :
            /\ ~IsDigit(u[i])
            /\ ~(/\ u[i] = "_"
                 /\ 1 < i
                 /\ i < Len(u)
                 /\ IsDigit(u[i - 1])
                 /\ IsDigit(u[i + 1]))

int(s) ==
    LET t == StripSet(s, IntWhitespace)
        n == DigitsToInt(SelectSeq(Unsigned(t), IsDigit))
    IN IF Head(t) = "-" THEN 0 - n ELSE n

\* A file is absent, or holds a character sequence.
NoFile == [exists |-> FALSE, data |-> << >>]
FileOf(s) == [exists |-> TRUE, data |-> s]

\* get_last_message_id reading the leading digits and ignoring what follows.
get_last_message_id_prefix(file, ioerr) ==
    LET t == strip(file.data)
        k == CHOOSE k \in 0..Len(t) :
                 /\ \A i \in 1..k : IsDigit(t[i])
                 /\ k < Len(t) => ~IsDigit(t[k + 1])
    IN IF ioerr \/ ~file.exists THEN 0 ELSE DigitsToInt(SubSeq(t, 1, k))

\* get_last_message_id: ioerr is an exception raised by open()/read().
get_last_message_id(file, ioerr) ==
    IF ioerr THEN 0
    ELSE IF file.exists
         THEN IF IntRaises(strip(file.data)) THEN 0 ELSE int(strip(file.data))
         ELSE 0

\* The outcomes of save_last_message_id: written; open() raised (file as it
\* was); the write raised after open(..., 'w') had truncated the file.
NoFault == [kind |-> "none", written |-> 0]

SaveFaults(message_id) ==
    {NoFault, [kind |-> "open", written |-> 0]}
      \cup {[kind |-> "write", written |-> k] :
                k \in 0..(Len(str(message_id)) - 1)}

\* save_last_message_id opening the file with mode 'a' instead of 'w'.
save_last_message_id_append(file, message_id, fault) ==
    CASE fault.kind = "none"  -> FileOf(file.data \o str(message_id))
      [] fault.kind = "open"  -> file
      [] fault.kind = "write" ->
             FileOf(file.data \o SubSeq(str(message_id), 1, fault.written))

save_last_message_id(file, message_id, fault) ==
    CASE fault.kind = "none"  -> FileOf(str(message_id))
      [] fault.kind = "open"  -> file
      [] fault.kind = "write" ->
             FileOf(SubSeq(str(message_id), 1, fault.written))

\* ------------------------------------------------------------ link records
\* extract_onion_links: one url per match, protocol defaulting to http://.
\* A url is kept as its parts <<protocol, domain, ".onion", path>>.
MakeUrl(match) ==
    << IF match.protocol # "" THEN match.protocol ELSE "http://",
       match.domain, ".onion", match.path >>

findall(text) == SelectSeq(text, LAMBDA t : t.kind = "onion")

extract_onion_links(text) ==
    IF text = << >> THEN << >>
    ELSE [i \in 1..Len(findall(text)) |-> MakeUrl(findall(text)[i])]

\* The entry save_link writes.  discovered_at is the time of the write, kept
\* as the number of the run; msg is the id of the message the url came from
\* (not in the file: provenance for the properties).
Entry(url, now, msg) ==
    [source |-> "telegram", url |-> url, discovered_at |-> now,
     status |-> "pending", msg |-> msg, whole |-> TRUE]

\* What a write that fails part-way leaves of a line: its beginning, without
\* the newline, so that the next append continues the same line.
Fragment(line) == [line EXCEPT !.whole = FALSE]

\* The outcomes of an append: the line written; open() raised, or the write
\* raised with nothing written; the write raised part-way.
WriteFaults == {"none", "open", "write"}

\* The test of line 133 with < for <=.
already_processed_strict(message_id, last) == message_id < last

\* Line 133: the message was handled by an earlier run.
already_processed(message_id, last) == message_id <= last

\* The test of line 154 with >= for >.
should_save_always(highest, last) == highest >= last

\* Line 154: the checkpoint is stored when the run met a newer message.
should_save(highest, last) == highest > last

\* save_link: append one line; a failing open/write is logged and dropped,
\* what the write had put into the file stays there.
save_link(log, url, now, msg, fault) ==
    CASE fault = "none"  -> Append(log, Entry(url, now, msg))
      [] fault = "open"  -> log
      [] fault = "write" -> Append(log, Fragment(Entry(url, now, msg)))

RECURSIVE save_links(_, _, _, _, _, _)
\* The loop "for link in links: save_link(link)" from link i on; faults[k] is
\* the outcome of the write of link k.
save_links(log, links, i, now, msg, faults) ==
    IF i > Len(links) THEN log
    ELSE save_links(save_link(log, links[i], now, msg, faults[i]),
                    links, i + 1, now, msg, faults)

\* The handler ending with break instead of continue.
break_after_error(p, lst) == Len(lst)

\* The handler of lines 149-151 ends with continue: the iteration goes on
\* with the message after the p+1-th.
after_message_error(p, lst) == p + 1

\* --------------------------------------------------------------- listing
SetMax(S) == CHOOSE x \in S : \A y \in S : y <= x

RECURSIVE Descending(_)
Descending(S) == IF S = {} THEN << >>
                 ELSE << SetMax(S) >> \o Descending(S \ {SetMax(S)})

\* client.iter_messages(channel, limit): the newest `limit` messages of the
\* channel, newest first.
iter_messages(ids, lim) ==
    SubSeq(Descending(ids), 1, IF Cardinality(ids) < lim THEN Cardinality(ids) ELSE lim)

\* ------------------------------------------------------ keyword matching
\* The letters of Latin-1 that str.lower() changes, and what it makes of them.
UpperCase == << "A", "B", "C", "D", "E", "F", "G", "H", "I", "J", "K", "L",
                "M", "N", "O", "P", "Q", "R", "S", "T", "U", "V", "W", "X",
                "Y", "Z", "À", "Á", "Â", "Ã", "Ä", "Å", "Æ", "Ç", "È", "É",
                "Ê", "Ë", "Ì", "Í", "Î", "Ï", "Ð", "Ñ", "Ò", "Ó", "Ô", "Õ",
                "Ö", "Ø", "Ù", "Ú", "Û", "Ü", "Ý", "Þ" >>
LowerCase == << "a", "b", "c", "d", "e", "f", "g", "h", "i", "j", "k", "l",
                "m", "n", "o", "p", "q", "r", "s", "t", "u", "v", "w", "x",
                "y", "z", "à", "á", "â", "ã", "ä", "å", "æ", "ç", "è", "é",
                "ê", "ë", "ì", "í", "î", "ï", "ð", "ñ", "ò", "ó", "ô", "õ",
                "ö", "ø", "ù", "ú", "û", "ü", "ý", "þ" >>

UpperSet == {UpperCase[i] : i \in 1..Len(UpperCase)}
LowerSet == {LowerCase[i] : i \in 1..Len(LowerCase)}
LowerOf ==
    [c \in UpperSet |-> LowerCase[CHOOSE i \in 1..Len(UpperCase) : UpperCase[i] = c]]

\* str.lower(), character by character.
LowerChar(c) == IF c \in UpperSet THEN LowerOf[c] ELSE c
lower(s) == [i \in 1..Len(s) |-> LowerChar(s[i])]

\* The other characters of Latin-1 that are alphanumeric for Python.
OtherWordChars == {"ª", "²", "³", "µ", "¹", "º", "¼", "½", "¾", "ß", "ÿ"}

\* \w of the regular expressions (str patterns, no re.ASCII): the
\* alphanumeric characters and the underscore.
WordChars ==
    UpperSet \cup LowerSet \cup Range(Digits) \cup {"_"} \cup OtherWordChars
IsWordChar(c) == c \in WordChars

\* kw occurs in s at position i.
OccursAt(kw, s, i) ==
    /\ i >= 1
    /\ i + Len(kw) - 1 <= Len(s)
    /\ SubSeq(s, i, i + Len(kw) - 1) = kw

\* "kw in s" of Python.
IsSubstring(kw, s) == \E i \in 1..(Len(s) + 1) : OccursAt(kw, s, i)

\* \b matches before position p of s (1 <= p <= Len(s) + 1).
WordBoundary(s, p) ==
    LET before == p > 1 /\ IsWordChar(s[p - 1])
        after  == p <= Len(s) /\ IsWordChar(s[p])
    IN before # after

\* re.search(r'\b' + re.escape(kw) + r'\b', s)
WordSearch(kw, s) ==
    \E i \in 1..(Len(s) + 1) :
        /\ OccursAt(kw, s, i)
        /\ WordBoundary(s, i)
        /\ WordBoundary(s, i + Len(kw))

\* self.keywords of the crawler under test.
keywords == << << "b", "t", "c" >>, << "t", ".", "m", "e" >> >>

\* The test of line 106 without its second operand.
keyword_matches_word_only(keyword, content_lower) ==
    WordSearch(lower(keyword), content_lower)

\* Line 106: the keyword as a word of its own, or anywhere in the content.
keyword_matches(keyword, content_lower) ==
    \/ WordSearch(lower(keyword), content_lower)
    \/ IsSubstring(lower(keyword), content_lower)

\* check_keywords: the keywords found in the content, in the order of
\* self.keywords.  The empty content stands for None and ''.
check_keywords(content) ==
    IF content = << >> THEN << >>
    ELSE LET content_lower == lower(content) IN
         SelectSeq(keywords, LAMBDA kw : keyword_matches(kw, content_lower))

\* The bodies a paste may have.
Bodies ==
    { << "x", "y" >>,
      << "t", ".", "m", "e", "/", "b", "t", "c", "s" >> }

\* None, as a result of process_paste.
None == [source |-> "None", paste_id |-> 0, discovered_at |-> 0,
         keywords_found |-> << >>, status |-> "", whole |-> TRUE]

\* fetch_paste_content: the text of the paste, or None (the empty content)
\* when the request raises.
fetch_paste_content(body, fault) == IF fault THEN << >> ELSE body

\* process_paste: the result for one paste, or None.
process_paste(paste_id, body, fault, now) ==
    LET content == fetch_paste_content(body, fault)
        keywords_found == check_keywords(content)
    IN IF content = << >> THEN None
       ELSE IF keywords_found # << >>
            THEN [source |-> "pastebin", paste_id |-> paste_id,
                  discovered_at |-> now, keywords_found |-> keywords_found,
                  status |-> "pending", whole |-> TRUE]
            ELSE None

\* save_result: nothing for None, else one line appended; a failing write
\* (which raises) may have put the beginning of the line into the file.
save_result(log, result, fault) ==
    IF result = None THEN log
    ELSE CASE fault = "none"  -> Append(log, result)
           [] fault = "open"  -> log
           [] fault = "write" -> Append(log, Fragment(result))

\* Results kept in the order the calls return, as with as_completed.
collect_as_completed(res, done, i, result) ==
    [res EXCEPT ![Cardinality(done) + 1] = result]

\* list(executor.map(...)), line 167: the result of call i is element i,
\* whichever calls returned before it.
collect(res, done, i, result) == [res EXCEPT ![i] = result]

\* Leaving the pool as soon as one call has returned.
pool_first_done(done, ids) == done # {}

\* Lines 166-167: list(executor.map(...)) and the end of the with block
\* return when every call has.
pool_joined(done, ids) == done = 1..Len(ids)

\* A pool that starts a thread for every queued call.
pool_unbounded(running) == TRUE

\* ThreadPoolExecutor(max_workers): a queued call starts when fewer than
\* max_workers calls are running.
pool_may_start(running) == Cardinality(running) < max_workers

VARIABLES
    crawler,        \* which script the behaviour runs
    nfaults,        \* number of disturbances so far
    msgs,           \* msgs[i]: text of message i, for the ids posted so far
    present,        \* ids of the messages now in the channel
    last_id_file,   \* the checkpoint file
    tg_output_file, \* onion_links.jsonl: the sequence of its lines
    tg_pc,          \* "idle", "iter", "done", "aborted", "killed", "killed_in_save"
    tg_runs,        \* number of runs started
    last_id,        \* process_messages' local last_id
    highest_id,     \* process_messages' local highest_id
    listed,         \* the messages iter_messages yields in this run
    pos,            \* number of them already yielded
    tg_start,       \* checkpoint file and log when the run started
    tg_failed,      \* ids whose loop body raised in this run
    tg_dropped,     \* ids of this run with a link whose write failed
    examined,       \* ids whose loop body ran without exception in some run
    tg_rerun,       \* the previous run completed and the channel is as it left it
    pastes,         \* pastes[i]: body of paste i; the archive lists 1..Len(pastes)
    pb_output_file, \* keyword_matches.jsonl: the sequence of its lines
    pb_pc,          \* "idle", "pool", "write", "done", "exited", "raised",
                    \* "raised_at_clear", "killed"
    pb_runs,        \* number of runs started
    paste_ids,      \* run's local paste_ids
    running,        \* indices of the calls of process_paste in flight
    finished,       \* indices of the calls that returned
    results,        \* results[i]: what call i returned (None until then)
    wpos,           \* number of results the loop of lines 170-172 has passed
    pb_start,       \* the log when the run started
    pb_failed,      \* indices of the calls whose fetch raised
    pb_rerun,       \* the previous run completed
    pb_reordered,   \* a call of this run returned before one listed earlier
    probe           \* a method called by itself: its argument and its result

tgvars == << msgs, present, last_id_file, tg_output_file, tg_pc, tg_runs,
             last_id, highest_id, listed, pos, tg_start, tg_failed,
             tg_dropped, examined, tg_rerun >>

pbvars == << pastes, pb_output_file, pb_pc, pb_runs, paste_ids, running,
             finished, results, wpos, pb_start, pb_failed, pb_rerun,
            pb_reordered >>

vars == << crawler, nfaults, probe, tgvars, pbvars >>

\* The Telegram crawler before its first run, the checkpoint file apart.
TgInitLocals ==
    /\ msgs = << >>
    /\ present = {}
    /\ tg_output_file = << >>
    /\ tg_pc = "idle"
    /\ tg_runs = 0
    /\ last_id = 0
    /\ highest_id = 0
    /\ listed = << >>
    /\ pos = 0
    /\ tg_start = [ckpt |-> NoFile, log |-> << >>]
    /\ tg_failed = {}
    /\ tg_dropped = {}
    /\ examined = {}
    /\ tg_rerun = FALSE

TgInit == last_id_file = NoFile /\ TgInitLocals

\* The failures a step may still draw.
MayFail == IF nfaults < MaxFaults THEN BOOLEAN ELSE {FALSE}
Failing(faults) == {k \in DOMAIN faults : faults[k] # "none"}
LinkFaults(n) ==
    {f \in [1..n -> WriteFaults] : nfaults + Cardinality(Failing(f)) <= MaxFaults}

TgBetweenRuns == tg_pc \in {"idle", "done", "aborted", "killed", "killed_in_save"}

\* A new message appears in the channel (ids grow).
Post ==
    /\ crawler = "telegram"
    /\ UNCHANGED << crawler, probe, pbvars >>
    /\ TgBetweenRuns
    /\ Len(msgs) < MaxMsgId
    /\ \E t \in Texts : msgs' = Append(msgs, t)
    /\ present' = present \cup {Len(msgs) + 1}
    /\ tg_pc' = "idle"
    /\ UNCHANGED << nfaults, last_id_file, tg_output_file, tg_runs, last_id,
                    highest_id, listed, pos, tg_start, tg_failed, tg_dropped,
                    examined, tg_rerun >>

\* A message is deleted from the channel.
Delete ==
    /\ crawler = "telegram"
    /\ UNCHANGED << crawler, probe, pbvars >>
    /\ TgBetweenRuns
    /\ nfaults < MaxFaults
    /\ nfaults' = nfaults + 1
    /\ \E m \in present : present' = present \ {m}
    /\ tg_pc' = "idle"
    /\ UNCHANGED << msgs, last_id_file, tg_output_file, tg_runs,
                    last_id, highest_id, listed, pos, tg_start, tg_failed,
                    tg_dropped, examined, tg_rerun >>

\* process_messages, lines 109-114: get_entity raises or finds no channel.
process_messages_no_channel ==
    /\ crawler = "telegram"
    /\ UNCHANGED << crawler, probe, pbvars >>
    /\ TgBetweenRuns
    /\ tg_runs < MaxRuns
    /\ nfaults < MaxFaults
    /\ nfaults' = nfaults + 1
    /\ tg_runs' = tg_runs + 1
    /\ tg_pc' = "aborted"
    /\ tg_start' = [ckpt |-> last_id_file, log |-> tg_output_file]
    /\ listed' = << >>
    /\ pos' = 0
    /\ tg_failed' = {}
    /\ tg_dropped' = {}
    /\ tg_rerun' = (tg_pc = "done")
    /\ UNCHANGED << msgs, present, last_id_file, tg_output_file, last_id,
                    highest_id, examined >>

\* process_messages, lines 111-130: the channel is found, the checkpoint is
\* loaded, the output is cleared when it is 0, and the iteration starts.
\* clear: the open(..., 'w') of line 127 raises, caught at line 159.
process_messages_begin ==
    /\ crawler = "telegram"
    /\ UNCHANGED << crawler, probe, pbvars >>
    /\ TgBetweenRuns
    /\ tg_runs < MaxRuns
    /\ tg_runs' = tg_runs + 1
    /\ \E ioerr \in MayFail, clear \in MayFail :
         LET l == get_last_message_id(last_id_file, ioerr) IN
           /\ ~(ioerr /\ clear)
           /\ clear => l = 0
           /\ nfaults' = nfaults + (IF ioerr \/ clear THEN 1 ELSE 0)
           /\ last_id' = l
           /\ highest_id' = l
           /\ IF clear
              THEN /\ tg_pc' = "aborted"
                   /\ listed' = << >>
                   /\ UNCHANGED tg_output_file
              ELSE /\ tg_pc' = "iter"
                   /\ listed' = iter_messages(present, limit)
                   /\ tg_output_file' = IF l = 0 THEN << >> ELSE tg_output_file
    /\ pos' = 0
    /\ tg_start' = [ckpt |-> last_id_file, log |-> tg_output_file]
    /\ tg_failed' = {}
    /\ tg_dropped' = {}
    /\ tg_rerun' = (tg_pc = "done")
    /\ UNCHANGED << msgs, present, last_id_file, examined >>

\* One pass of the loop body, lines 131-151, for the next message.  exc: the
\* body raises after line 138 (caught at 149); faults: the links whose
\* save_link fails.
process_messages_message ==
    /\ crawler = "telegram"
    /\ UNCHANGED << crawler, probe, pbvars >>
    /\ tg_pc = "iter"
    /\ pos < Len(listed)
    /\ LET m == listed[pos + 1]
           links == extract_onion_links(msgs[m])
       IN IF already_processed(m, last_id)
          THEN /\ pos' = pos + 1
               /\ UNCHANGED << nfaults, highest_id, tg_output_file, tg_failed,
                               tg_dropped, examined >>
          ELSE /\ highest_id' = IF m > highest_id THEN m ELSE highest_id
               /\ \E exc \in MayFail :
                    IF exc
                    THEN /\ nfaults' = nfaults + 1
                         /\ pos' = after_message_error(pos, listed)
                         /\ tg_failed' = tg_failed \cup {m}
                         /\ UNCHANGED << tg_output_file, tg_dropped, examined >>
                    ELSE \E faults \in LinkFaults(Len(links)) :
                           /\ nfaults' = nfaults + Cardinality(Failing(faults))
                           /\ pos' = pos + 1
                           /\ tg_output_file' =
                                save_links(tg_output_file, links, 1, tg_runs, m, faults)
                           /\ examined' = examined \cup {m}
                           /\ tg_dropped' = IF Failing(faults) = {} THEN tg_dropped
                                            ELSE tg_dropped \cup {m}
                           /\ UNCHANGED tg_failed
    /\ UNCHANGED << msgs, present, last_id_file, tg_pc, tg_runs, last_id,
                    listed, tg_start, tg_rerun >>

\* The iteration raises (FloodWaitError or another error), lines 157-160.
process_messages_iter_error ==
    /\ crawler = "telegram"
    /\ UNCHANGED << crawler, probe, pbvars >>
    /\ tg_pc = "iter"
    /\ nfaults < MaxFaults
    /\ nfaults' = nfaults + 1
    /\ tg_pc' = "aborted"
    /\ UNCHANGED << msgs, present, last_id_file, tg_output_file, tg_runs,
                    last_id, highest_id, listed, pos, tg_start, tg_failed,
                    tg_dropped, examined, tg_rerun >>

\* The iteration is over, lines 154-155: the checkpoint is stored.
process_messages_finish ==
    /\ crawler = "telegram"
    /\ UNCHANGED << crawler, probe, pbvars >>
    /\ tg_pc = "iter"
    /\ pos = Len(listed)
    /\ tg_pc' = "done"
    /\ IF should_save(highest_id, last_id)
       THEN \E fault \in SaveFaults(highest_id) :
              /\ fault # NoFault => nfaults < MaxFaults
              /\ nfaults' = nfaults + (IF fault = NoFault THEN 0 ELSE 1)
              /\ last_id_file' = save_last_message_id(last_id_file, highest_id, fault)
       ELSE UNCHANGED << nfaults, last_id_file >>
    /\ UNCHANGED << msgs, present, tg_output_file, tg_runs, last_id, highest_id,
                    listed, pos, tg_start, tg_failed, tg_dropped, examined,
                    tg_rerun >>

TgNext ==
    \/ Post
    \/ Delete
    \/ process_messages_no_channel
    \/ process_messages_begin
    \/ process_messages_message
    \/ process_messages_iter_error
    \/ process_messages_finish

\* ---------------------------------------------------------------- Pastebin
SeqsUpTo(S, n) == UNION {[1..k -> S] : k \in 0..n}

PbInit ==
    /\ pb_output_file = << >>
    /\ pb_pc = "idle"
    /\ pb_runs = 0
    /\ paste_ids = << >>
    /\ running = {}
    /\ finished = {}
    /\ results = << >>
    /\ wpos = 0
    /\ pb_start = << >>
    /\ pb_failed = {}
    /\ pb_rerun = FALSE
    /\ pb_reordered = FALSE

PbBetweenRuns ==
    pb_pc \in {"idle", "done", "exited", "raised", "raised_at_clear", "killed"}

\* get_archive_paste_ids: the ids the archive lists, [] when the request raises.
get_archive_paste_ids(fault) ==
    IF fault THEN << >> ELSE [i \in 1..Len(pastes) |-> i]

\* run, lines 154-167: the archive is listed; the run returns when the list
\* is empty, else the output is cleared and every paste is handed to the pool.
\* clear: the open(..., 'w') of line 163 raises, and so does run.
run_begin ==
    /\ crawler = "pastebin"
    /\ UNCHANGED << crawler, probe, tgvars >>
    /\ PbBetweenRuns
    /\ pb_runs < MaxRuns
    /\ pb_runs' = pb_runs + 1
    /\ pb_start' = pb_output_file
    /\ pb_rerun' = (pb_pc = "done")
    /\ \E fault \in MayFail, clear \in MayFail :
         LET ids == get_archive_paste_ids(fault) IN
           /\ ~(fault /\ clear)
           /\ clear => ids # << >>
           /\ nfaults' = nfaults + (IF fault \/ clear THEN 1 ELSE 0)
           /\ paste_ids' = ids
           /\ results' = [i \in 1..Len(ids) |-> None]
           /\ IF ids = << >>
              THEN /\ pb_pc' = "exited"
                   /\ UNCHANGED pb_output_file
              ELSE IF clear
                   THEN /\ pb_pc' = "raised_at_clear"
                        /\ UNCHANGED pb_output_file
                   ELSE /\ pb_pc' = "pool"
                        /\ pb_output_file' = << >>
    /\ running' = {}
    /\ finished' = {}
    /\ wpos' = 0
    /\ pb_failed' = {}
    /\ pb_reordered' = FALSE
    /\ UNCHANGED pastes

\* A worker thread of the pool takes the next queued call.
worker_start ==
    /\ crawler = "pastebin"
    /\ UNCHANGED << crawler, probe, tgvars >>
    /\ pb_pc = "pool"
    /\ pool_may_start(running)
    /\ \E i \in 1..Len(paste_ids) :
         /\ i \notin running \cup finished
         /\ \A j \in 1..(i - 1) : j \in running \cup finished
         /\ running' = running \cup {i}
    /\ UNCHANGED << nfaults, pastes, pb_output_file, pb_pc, pb_runs, paste_ids,
                    finished, results, wpos, pb_start, pb_failed, pb_rerun,
                    pb_reordered >>

\* A call of process_paste returns; the pool is left when all have.
worker_finish ==
    /\ crawler = "pastebin"
    /\ UNCHANGED << crawler, probe, tgvars >>
    /\ pb_pc = "pool"
    /\ \E i \in running, fault \in MayFail :
         /\ nfaults' = nfaults + (IF fault THEN 1 ELSE 0)
         /\ results' = collect(results, finished, i,
                               process_paste(paste_ids[i], pastes[paste_ids[i]],
                                             fault, pb_runs))
         /\ pb_reordered' = (pb_reordered \/ \E j \in running : j < i)
         /\ pb_failed' = IF fault THEN pb_failed \cup {i} ELSE pb_failed
         /\ running' = running \ {i}
         /\ finished' = finished \cup {i}
         /\ pb_pc' = IF pool_joined(finished', paste_ids) THEN "write" ELSE "pool"
    /\ UNCHANGED << pastes, pb_output_file, pb_runs, paste_ids, wpos, pb_start,
                    pb_rerun >>

\* One pass of the loop of lines 170-172; a failing append raises out of run.
run_save ==
    /\ crawler = "pastebin"
    /\ UNCHANGED << crawler, probe, tgvars >>
    /\ pb_pc = "write"
    /\ wpos < Len(results)
    /\ \E fault \in WriteFaults :
         /\ fault # "none" => (nfaults < MaxFaults /\ results[wpos + 1] # None)
         /\ pb_output_file' = save_result(pb_output_file, results[wpos + 1], fault)
         /\ IF fault # "none"
            THEN /\ nfaults' = nfaults + 1
                 /\ pb_pc' = "raised"
                 /\ UNCHANGED wpos
            ELSE /\ wpos' = wpos + 1
                 /\ UNCHANGED << nfaults, pb_pc >>
    /\ UNCHANGED << pastes, pb_runs, paste_ids, running, finished, results,
                    pb_start, pb_failed, pb_rerun, pb_reordered >>

\* Lines 175-176: the run is over.
run_end ==
    /\ crawler = "pastebin"
    /\ UNCHANGED << crawler, probe, tgvars >>
    /\ pb_pc = "write"
    /\ wpos = Len(results)
    /\ pb_pc' = "done"
    /\ UNCHANGED << nfaults, pastes, pb_output_file, pb_runs, paste_ids, running,
                    finished, results, wpos, pb_start, pb_failed, pb_rerun,
                    pb_reordered >>

PbNext ==
    \/ run_begin
    \/ worker_start
    \/ worker_finish
    \/ run_save
    \/ run_end

\* ------------------------------------------------------- specifications
\* No method is called by itself.
NoProbe == [pc |-> "none", content |-> << >>, found |-> << >>, n |-> 0,
            prev_n |-> 0, before |-> NoFile, saves |-> 0, ioerr |-> FALSE,
            ret |-> 0]

Init ==
    /\ crawler \in {"telegram", "pastebin"}
    /\ nfaults = 0
    /\ probe = NoProbe
    /\ TgInit
    /\ PbInit
    /\ pastes \in (IF crawler = "pastebin" THEN SeqsUpTo(Bodies, MaxPastes) ELSE {<< >>})

Next == TgNext \/ PbNext

Spec == Init /\ [][Next]_vars

\* The runs of the Pastebin crawler alone.
PbOnlyInit == Init /\ crawler = "pastebin"
SpecPastebin == PbOnlyInit /\ [][PbNext]_vars

\* ------------------------------------------------------------ interruption
\* The process is stopped (KeyboardInterrupt, kill) while process_messages
\* iterates, lines 130-151: between two messages, or inside the body of the
\* next one after the save_link calls of k of its links, failed ones among
\* them.
process_messages_interrupt ==
    /\ crawler = "telegram"
    /\ UNCHANGED << crawler, probe, pbvars >>
    /\ tg_pc = "iter"
    /\ tg_pc' = "killed"
    /\ \/ UNCHANGED << nfaults, highest_id, tg_output_file, tg_dropped >>
       \/ /\ pos < Len(listed)
          /\ ~already_processed(listed[pos + 1], last_id)
          /\ LET m == listed[pos + 1]
                 links == extract_onion_links(msgs[m])
             IN /\ highest_id' = IF m > highest_id THEN m ELSE highest_id
                /\ \E k \in 0..Len(links) : \E faults \in LinkFaults(k) :
                     /\ nfaults' = nfaults + Cardinality(Failing(faults))
                     /\ tg_output_file' =
                            save_links(tg_output_file, SubSeq(links, 1, k), 1,
                                       tg_runs, m, faults)
                     /\ tg_dropped' = IF Failing(faults) = {} THEN tg_dropped
                                      ELSE tg_dropped \cup {m}
    /\ UNCHANGED << msgs, present, last_id_file, tg_runs, last_id, listed, pos,
                    tg_start, tg_failed, examined, tg_rerun >>

\* Where save_last_message_id may be stopped: before open(..., 'w'); after it
\* truncated the file and before the written digits reached it; after that.
SavePoints == {"before_open", "after_open", "after_write"}

save_last_message_id_stopped(file, message_id, point) ==
    CASE point = "before_open" -> file
      [] point = "after_open"  -> FileOf(<< >>)
      [] point = "after_write" -> FileOf(str(message_id))

\* The process is stopped inside save_last_message_id, called at line 155.
save_last_message_id_interrupt ==
    /\ crawler = "telegram"
    /\ UNCHANGED << crawler, probe, pbvars >>
    /\ tg_pc = "iter"
    /\ pos = Len(listed)
    /\ should_save(highest_id, last_id)
    /\ tg_pc' = "killed_in_save"
    /\ \E point \in SavePoints :
         last_id_file' = save_last_message_id_stopped(last_id_file, highest_id, point)
    /\ UNCHANGED << nfaults, msgs, present, tg_output_file, tg_runs, last_id,
                    highest_id, listed, pos, tg_start, tg_failed, tg_dropped,
                    examined, tg_rerun >>

\* The process is stopped while PastebinCrawler.run is in the pool or in the
\* loop of lines 170-172.
run_interrupt ==
    /\ crawler = "pastebin"
    /\ UNCHANGED << crawler, probe, tgvars >>
    /\ pb_pc \in {"pool", "write"}
    /\ pb_pc' = "killed"
    /\ UNCHANGED << nfaults, pastes, pb_output_file, pb_runs, paste_ids, running,
                    finished, results, wpos, pb_start, pb_failed, pb_rerun,
                    pb_reordered >>

Interrupt ==
    \/ process_messages_interrupt
    \/ save_last_message_id_interrupt
    \/ run_interrupt

\* The runs of both crawlers, any of which may be stopped.
SpecCrash == Init /\ [][Next \/ Interrupt]_vars

\* The runs of the Pastebin crawler, any of which may be stopped.
SpecPastebinCrash == PbOnlyInit /\ [][PbNext \/ run_interrupt]_vars

\* ------------------------------------------- the checkpoint methods alone
\* The characters of the checkpoint files tried.
CkptChars == {"0", "1", "7", " ", "\n", "", "", " ", "-", "x", "_"}

\* The checkpoint file before the calls: absent, or any short content.
CkptFiles == {NoFile} \cup {FileOf(d) : d \in SeqsUpTo(CkptChars, MaxCkptLen)}

CheckpointInit ==
    /\ crawler = "telegram"
    /\ nfaults = 0
    /\ probe = [NoProbe EXCEPT !.pc = "checkpoint"]
    /\ last_id_file \in CkptFiles
    /\ TgInitLocals
    /\ PbInit
    /\ pastes = << >>

\* save_last_message_id(n) is called, at most twice, and does not fail.
call_save_last_message_id ==
    /\ probe.pc \in {"checkpoint", "saved"}
    /\ probe.saves < 2
    /\ \E n \in 1..MaxCkptId :
         /\ last_id_file' = save_last_message_id(last_id_file, n, NoFault)
         /\ probe' = [probe EXCEPT !.pc = "saved", !.n = n, !.prev_n = probe.n,
                                   !.before = last_id_file, !.saves = @ + 1]
    /\ UNCHANGED << crawler, nfaults, msgs, present, tg_output_file, tg_pc,
                    tg_runs, last_id, highest_id, listed, pos, tg_start,
                    tg_failed, tg_dropped, examined, tg_rerun, pbvars >>

\* get_last_message_id() is called.
call_get_last_message_id ==
    /\ probe.pc \in {"checkpoint", "saved"}
    /\ \E ioerr \in BOOLEAN :
         probe' = [probe EXCEPT !.pc = "loaded", !.ioerr = ioerr,
                                !.ret = get_last_message_id(last_id_file, ioerr)]
    /\ UNCHANGED << crawler, nfaults, tgvars, pbvars >>

SpecCheckpoint ==
    CheckpointInit /\ [][call_save_last_message_id \/ call_get_last_message_id]_vars

\* ------------------------------------------------- check_keywords alone
\* The characters of the contents tried.
KwChars == {"b", "B", "t", "c", ".", "m", "e", "x", " ", "É"}

KeywordsInit ==
    /\ crawler = "pastebin"
    /\ nfaults = 0
    /\ probe \in {[NoProbe EXCEPT !.pc = "keywords", !.content = c] :
                     c \in SeqsUpTo(KwChars, MaxBodyLen)}
    /\ TgInit
    /\ PbInit
    /\ pastes = << >>

\* check_keywords(content) is called.
call_check_keywords ==
    /\ probe.pc = "keywords"
    /\ probe' = [probe EXCEPT !.pc = "checked",
                              !.found = check_keywords(probe.content)]
    /\ UNCHANGED << crawler, nfaults, tgvars, pbvars >>

SpecKeywords == KeywordsInit /\ [][call_check_keywords]_vars

\* =================================================================== claims
\* The value the checkpoint file holds: what get_last_message_id reads from it.
CkptValue(file) == get_last_message_id(file, FALSE)

IsPrefix(s, t) == Len(s) <= Len(t) /\ SubSeq(t, 1, Len(s)) = s

\* The messages of this run whose loop body ran to its end.
Processed ==
    {listed[k] : k \in 1..pos} \cap {m \in 1..MaxMsgId : m > last_id /\ m \notin tg_failed}

\* Every link of message m was appended in full to the log by this run.
LinksLogged(m) ==
    \A k \in 1..Len(extract_onion_links(msgs[m])) :
        \E i \in 1..Len(tg_output_file) :
            /\ tg_output_file[i].whole
            /\ tg_output_file[i].msg = m
            /\ tg_output_file[i].url = extract_onion_links(msgs[m])[k]
            /\ tg_output_file[i].discovered_at = tg_runs

\* C1: a run that follows a completed run on the same source snapshot adds no
\* record to the output log and leaves the checkpoint value as it was, for
\* the Telegram extractor and for the Pastebin crawler.
C1_IdempotentRerun ==
    /\ (tg_pc = "done" /\ tg_rerun) =>
          /\ \A i \in 1..Len(tg_output_file) : tg_output_file[i].discovered_at # tg_runs
          /\ CkptValue(last_id_file) = CkptValue(tg_start.ckpt)
    /\ (pb_pc = "done" /\ pb_rerun) =>
          \A i \in 1..Len(pb_output_file) : pb_output_file[i].discovered_at # pb_runs

\* C2: the output log of the Telegram extractor never holds records that two
\* different runs produced from the same message.
C2_NoDuplicateAcrossRuns ==
    \A i, j \in 1..Len(tg_output_file) :
        tg_output_file[i].msg = tg_output_file[j].msg =>
            tg_output_file[i].discovered_at = tg_output_file[j].discovered_at

\* C3: the value stored in the checkpoint file never decreases.
C3_CheckpointMonotonic ==
    [][CkptValue(last_id_file') >= CkptValue(last_id_file)]_vars

\* C4: every step of every run of either crawler leaves the lines already in
\* its output log in place, unchanged, and only appends lines after them.
C4_AppendOnly ==
    [][/\ IsPrefix(tg_output_file, tg_output_file')
       /\ IsPrefix(pb_output_file, pb_output_file')]_vars

\* C5: when a run has stored the checkpoint value v, every link of every
\* message it processed (all have ids <= v) is in the output log, and the
\* store came after the whole iteration.
C5_WriteBeforeAdvance ==
    (/\ tg_pc = "done"
     /\ highest_id > last_id
     /\ CkptValue(last_id_file) = highest_id) =>
        /\ pos = Len(listed)
        /\ \A m \in Processed : m <= highest_id /\ LinksLogged(m)

\* C6: a run that ends because the source could not be listed (get_entity or
\* the message iteration raises; the archive request fails) leaves the
\* checkpoint file and the output log as they were when it started.
C6_ListingFailureMutatesNothing ==
    /\ tg_pc = "aborted" =>
          /\ last_id_file = tg_start.ckpt
          /\ tg_output_file = tg_start.log
    /\ pb_pc = "exited" => pb_output_file = pb_start

\* C7: a failing item does not end the run, and does not keep the records of
\* the other items from the log.  Telegram: a run that reached its end has
\* logged every link of every new message whose own processing and writes
\* did not fail.  Pastebin: a run leaves the pool phase only with every call
\* returned, is cut short after it only by a failing append, and when done
\* has logged the record of every paste that was fetched and matches,
\* whatever the order in which the workers finished.
C7_FailureIsolation ==
    /\ tg_pc = "done" =>
          \A k \in 1..Len(listed) :
              (/\ listed[k] > last_id
               /\ listed[k] \notin tg_failed
               /\ listed[k] \notin tg_dropped) => LinksLogged(listed[k])
    /\ pb_pc \in {"write", "done", "raised"} => finished = 1..Len(paste_ids)
    /\ pb_pc = "raised" => wpos < Len(results) /\ results[wpos + 1] # None
    /\ pb_pc = "done" =>
          \A i \in 1..Len(paste_ids) :
              (i \notin pb_failed /\ check_keywords(pastes[paste_ids[i]]) # << >>) =>
                  \E k \in 1..Len(pb_output_file) :
                      /\ pb_output_file[k].paste_id = paste_ids[i]
                      /\ pb_output_file[k].keywords_found =
                             check_keywords(pastes[paste_ids[i]])
                      /\ pb_output_file[k].discovered_at = pb_runs

\* A Telegram run is done in which one message raised and a message listed
\* after it had its links logged.
C7_Witness ==
    /\ tg_pc = "done"
    /\ \E x, y \in 1..Len(listed) :
          /\ x < y
          /\ listed[x] \in tg_failed
          /\ listed[y] > last_id
          /\ extract_onion_links(msgs[listed[y]]) # << >>
          /\ LinksLogged(listed[y])

\* C8: after a run that reached its end, the checkpoint value is the highest
\* id among the listed messages with an id above the checkpoint value the
\* run started from, whether or not they matched or failed.
C8_CheckpointIsMaxListed ==
    tg_pc = "done" =>
        LET new == {m \in Range(listed) : m > CkptValue(tg_start.ckpt)}
        IN new # {} => CkptValue(last_id_file) = SetMax(new)

\* C9: every message of the channel with an id at or below the checkpoint
\* value has had its loop body run to the end in some run.
C9_NoSilentSkip ==
    \A m \in 1..Len(msgs) : m <= CkptValue(last_id_file) => m \in examined

\* C10: at most max_workers calls of process_paste are in flight.
C10_BoundedParallelism == Cardinality(running) <= max_workers

\* The pool is full while pastes are still queued.
C10_Witness ==
    /\ pb_pc = "pool"
    /\ Cardinality(running) = max_workers
    /\ Cardinality(running \cup finished) < Len(paste_ids)

\* C11: a failing append is not dropped silently: a run never reaches its end
\* with the checkpoint value at or past a message one of whose records failed
\* to be written.
C11_SinkFailureSurfaced ==
    tg_pc = "done" => \A m \in tg_dropped : CkptValue(last_id_file) < m

\* C12: when a run is stopped after it started fetching, every record fetched
\* and matched before that is in the output log, and the checkpoint holds the
\* value it had when the run started.
C12_InterruptKeepsFetched ==
    /\ tg_pc \in {"killed", "killed_in_save"} =>
         /\ \A m \in Processed : LinksLogged(m)
         /\ CkptValue(last_id_file) = CkptValue(tg_start.ckpt)
    /\ pb_pc = "killed" =>
         \A i \in finished :
             results[i] # None =>
                 \E k \in 1..Len(pb_output_file) : pb_output_file[k] = results[i]

\* Only whitespace.
Blank(d) == \A i \in 1..Len(d) : d[i] \in Whitespace

\* The characters an integer literal may hold.
IntegerChars == Range(Digits) \cup Whitespace \cup Signs \cup {"_"}

\* d is the decimal numeral of n (no leading zero), whitespace around it.
StoresInteger(d, n) ==
    \E i \in 1..Len(d), j \in 1..Len(d) :
        /\ i <= j
        /\ Blank(SubSeq(d, 1, i - 1))
        /\ Blank(SubSeq(d, j + 1, Len(d)))
        /\ \A k \in i..j : IsDigit(d[k])
        /\ (d[i] # "0" \/ i = j)
        /\ SubSeq(d, i, j) = str(n)

\* d is a decimal numeral, whitespace around it.
IsNumeral(d) ==
    \E i \in 1..Len(d), j \in 1..Len(d) :
        /\ i <= j
        /\ Blank(SubSeq(d, 1, i - 1))
        /\ Blank(SubSeq(d, j + 1, Len(d)))
        /\ \A k \in i..j : IsDigit(d[k])
        /\ (d[i] # "0" \/ i = j)

\* C13: get_last_message_id returns 0 when the checkpoint file is absent,
\* empty, blank, unreadable or holds a character no integer has, and returns
\* the integer whose numeral the file holds otherwise.
C13_CheckpointLoadNeverFails ==
    probe.pc = "loaded" =>
        /\ (probe.ioerr \/ ~last_id_file.exists \/ Blank(last_id_file.data))
               => probe.ret = 0
        /\ (\E i \in 1..Len(last_id_file.data) :
                last_id_file.data[i] \notin IntegerChars)
               => probe.ret = 0
        /\ (~probe.ioerr /\ last_id_file.exists /\ IsNumeral(last_id_file.data))
               => /\ probe.ret >= 0
                  /\ StoresInteger(last_id_file.data, probe.ret)

C13_Witness ==
    /\ probe.pc = "loaded"
    /\ ~probe.ioerr
    /\ probe.saves = 0
    /\ last_id_file.exists
    /\ \E i \in 1..Len(last_id_file.data) : last_id_file.data[i] = "x"
    /\ \E i \in 1..Len(last_id_file.data) : IsDigit(last_id_file.data[i])
    /\ probe.ret = 0

\* C14: a stop at any point of save_last_message_id leaves a checkpoint file
\* that reads as the old value or as the new one.
C14_AtomicCheckpointStore ==
    tg_pc = "killed_in_save" =>
        CkptValue(last_id_file) \in {CkptValue(tg_start.ckpt), highest_id}

\* C15: a line is appended to the Pastebin log only by the loop that follows
\* the pool, when no call of process_paste is running and all have returned,
\* and one line at a time, so that no line of it continues a partial one;
\* the Telegram log grows only inside the one loop of process_messages.
C15_SerializedAppends ==
    [][ /\ \A i \in 1..(Len(pb_output_file') - 1) : pb_output_file'[i].whole
        /\ (pb_output_file' # pb_output_file /\ pb_output_file' # << >>) =>
              /\ pb_pc = "write"
              /\ running = {}
              /\ finished = 1..Len(paste_ids)
              /\ pb_output_file' \in
                     {Append(pb_output_file, results[wpos + 1]),
                      Append(pb_output_file, Fragment(results[wpos + 1]))}
        /\ (tg_output_file' # tg_output_file /\ tg_output_file' # << >>) =>
              (tg_pc = "iter" /\ tg_pc' = "iter")
      ]_vars

C15_Witness ==
    /\ pb_pc = "write"
    /\ Len(paste_ids) >= max_workers
    /\ pb_reordered
    /\ wpos >= 1
    /\ Len(pb_output_file) >= 2

\* kw occurs in s, position by position.
Occurs(kw, s) ==
    \E i \in 0..(Len(s) - Len(kw)) : \A j \in 1..Len(kw) : s[i + j] = kw[j]

\* C16: every keyword whose lower-cased form occurs in the lower-cased content
\* is in the result of check_keywords, whatever stands around it; the empty
\* content gives the empty list.
C16_KeywordRecall ==
    probe.pc = "checked" =>
        /\ probe.content = << >> => probe.found = << >>
        /\ \A k \in 1..Len(keywords) :
               Occurs(lower(keywords[k]), lower(probe.content))
                   => keywords[k] \in Range(probe.found)

C16_Witness ==
    /\ probe.pc = "checked"
    /\ \E k \in 1..Len(keywords) :
           /\ Occurs(lower(keywords[k]), lower(probe.content))
           /\ ~WordSearch(lower(keywords[k]), lower(probe.content))
           /\ keywords[k] \in Range(probe.found)

\* C17: get_last_message_id after save_last_message_id(n), with no failure,
\* returns n; saving the same n a second time leaves the file as it was.
C17_CheckpointRoundTrip ==
    /\ (probe.pc = "loaded" /\ probe.saves > 0 /\ ~probe.ioerr)
           => probe.ret = probe.n
    /\ (probe.pc = "saved" /\ probe.saves = 2 /\ probe.n = probe.prev_n)
           => last_id_file = probe.before

C17_Witness ==
    /\ probe.pc = "loaded"
    /\ ~probe.ioerr
    /\ probe.saves = 2
    /\ probe.n = probe.prev_n
    /\ probe.n >= 10
    /\ probe.ret = probe.n

\* C18: the checkpoint file changes only at the end of a run whose iteration
\* completed and listed an id greater than the value loaded at its start.
C18_CheckpointFrame ==
    [][ last_id_file' # last_id_file =>
            /\ tg_pc = "iter"
            /\ tg_pc' = "done"
            /\ pos = Len(listed)
            /\ \E k \in 1..Len(listed) : listed[k] > last_id
      ]_vars

C18_Witness ==
    /\ tg_pc = "done"
    /\ tg_runs >= 2
    /\ last_id_file # tg_start.ckpt
    /\ CkptValue(last_id_file) = highest_id
    /\ highest_id > last_id

\* C19: during a run, no record of the run comes from a message whose id is
\* at most the checkpoint value loaded at its start, and the high-water mark
\* is the largest of that value and the greater ids listed so far.
C19_CheckpointFiltering ==
    tg_pc \in {"iter", "done"} =>
        /\ \A i \in 1..Len(tg_output_file) :
               tg_output_file[i].discovered_at = tg_runs
                   => tg_output_file[i].msg > last_id
        /\ highest_id =
               SetMax({last_id} \cup
                      {listed[k] : k \in {j \in 1..pos : listed[j] > last_id}})

C19_Witness ==
    /\ tg_pc = "iter"
    /\ pos >= 1
    /\ last_id > 0
    /\ listed[pos] <= last_id
    /\ extract_onion_links(msgs[listed[pos]]) # << >>

\* The listed pastes that were fetched and hold a keyword, in listing order.
Matched ==
    SelectSeq([i \in 1..Len(paste_ids) |-> i],
              LAMBDA i : /\ i \notin pb_failed
                         /\ check_keywords(pastes[paste_ids[i]]) # << >>)

\* C20: after a completed Pastebin run the log holds exactly one record for
\* each listed paste that was fetched and matched, in the order of the
\* listing, in whatever order the calls returned.
C20_DeterministicOutputOrder ==
    pb_pc = "done" =>
        /\ Len(pb_output_file) = Len(Matched)
        /\ \A k \in 1..Len(Matched) :
               /\ pb_output_file[k].paste_id = paste_ids[Matched[k]]
               /\ pb_output_file[k].keywords_found =
                      check_keywords(pastes[paste_ids[Matched[k]]])

C20_Witness ==
    /\ pb_pc = "done"
    /\ pb_reordered
    /\ Len(pb_output_file) >= 2
====
